---- MODULE Spec2Model ----
(***************************************************************************)
(* Model of WorkbenchVoiceRecognitionService (transcribe / doTranscribe)   *)
(* and VoiceTranscriptionWorkletNode of                                    *)
(* vs/workbench/services/voiceRecognition/electron-sandbox/                *)
(* workbenchVoiceRecognitionService.ts.                                    *)
(*                                                                         *)
(* One transcribe call is a session.  A session runs on the renderer's     *)
(* single thread: every action below is one run-to-completion piece of     *)
(* JavaScript (a task or a microtask); the suspension points of the async  *)
(* functions are the boundaries between actions.                           *)
(***************************************************************************)
EXTENDS Integers, Sequences, FiniteSets, TLC

\* ------------------------------------------------------------------ bounds
\* Total number of messages the processing units post on their ports.
MaxMsgs == 2

\* The same, in the behaviours checked for liveness.
MaxLiveMsgs == 1

\* ------------------------------------------------------------- the callers
\* Two transcribe calls, each with its own cancellation token.
Sessions == {"s1", "s2"}

\* Payloads a worklet can post on its port: e.data with its typeof.
Payloads ==
    { [type |-> "string", data |-> "hello"],
      [type |-> "string", data |-> "world"],
      [type |-> "object", data |-> "pcm"] }

VARIABLES
    pc,              \* position of the async callback of doTranscribe
    cancelled,       \* token.isCancellationRequested
    cancelledAt,     \* history: pc at the moment cancellation was requested
    tokenListeners,  \* callbacks registered on the token, in order
    timers,          \* setTimeout(0) callbacks pending for the session
    emitterDisposed, \* onDidTranscribe.dispose() has run
    fired,           \* arguments of onDidTranscribe.fire(), in order
    delivered,       \* fragments a subscriber of the returned event received
    microphoneDevice,\* the MediaStream of the session: {} or {its id}
    audioContext,    \* the AudioContext of the session: {} or {its id}
    liveStreams,     \* MediaStreams whose tracks are live
    openContexts,    \* AudioContexts not closed
    numStreams,      \* MediaStreams handed out by getUserMedia so far
    numContexts,     \* AudioContexts constructed so far
    sourceConnected, \* microphoneSource is connected to the worklet node
    recordingDone,   \* recordingDone (DeferredPromise) is completed
    nodeEmitter,     \* onDidTranscribe field of the session's worklet node
    workletCmds,     \* commands posted to the worklet through node.port
    portQueue,       \* messages of the worklet in flight on node.port
    sent,            \* history: every message the worklet posted
    log              \* history: side effects of the session, in order

vars == << pc, cancelled, cancelledAt, tokenListeners, timers, emitterDisposed,
           fired, delivered, microphoneDevice, audioContext, liveStreams,
           openContexts, numStreams, numContexts, sourceConnected,
           recordingDone, nodeEmitter, workletCmds, portQueue, sent, log >>

\* ----------------------------------------------------------------- helpers
Range(q) == { q[i] : i \in 1..Len(q) }

RECURSIVE Count(_, _)
Count(q, x) ==
    IF q = << >> THEN 0
    ELSE (IF Head(q) = x THEN 1 ELSE 0) + Count(Tail(q), x)

RECURSIVE Flatten(_)
Flatten(qq) == IF qq = << >> THEN << >> ELSE Head(qq) \o Flatten(Tail(qq))

RECURSIVE SumLen(_, _)
SumLen(f, S) ==
    IF S = {} THEN 0
    ELSE LET x == CHOOSE y \in S : TRUE IN Len(f[x]) + SumLen(f, S \ {x})

\* ---------------------------------------------- vs/base/common/cancellation
\* token.onCancellationRequested(cb): on a token that is not cancelled the
\* callback is added to the token's listeners; on a cancelled token it is
\* scheduled with setTimeout(cb, 0).
RegisterListener(isCancelled, listeners, cb) ==
    IF isCancelled THEN listeners ELSE Append(listeners, cb)

RegisterTimer(isCancelled, pending, cb) ==
    IF isCancelled THEN Append(pending, cb) ELSE pending

\* --------------------------------------------------- vs/base/common/event
\* emitter.fire(data): delivered to the listeners unless disposed.
EmitterFire(disposed, received, data) ==
    IF disposed THEN received ELSE Append(received, data)

RECURSIVE FireAll(_, _, _)
FireAll(disposed, received, calls) ==
    IF calls = << >> THEN received
    ELSE FireAll(disposed, EmitterFire(disposed, received, Head(calls)),
                 Tail(calls))

\* ------------------------------------------------- the callbacks' bodies
\* transcribe: cancellation.onCancellationRequested(() => onDidTranscribe.dispose())
DisposeListenerWithoutDispose == << >>

DisposeListener == << "emitter.dispose" >>

\* doTranscribe: the listener registered after createMediaStreamSource
TeardownListenerReordered ==
    << "track.stop", "audioContext.close", "microphoneSource.disconnect",
       "recordingDone.complete" >>

TeardownListenerWithoutTrackStop ==
    << "microphoneSource.disconnect", "audioContext.close",
       "recordingDone.complete" >>

TeardownListenerWithoutDisconnect ==
    << "track.stop", "audioContext.close", "recordingDone.complete" >>

TeardownListenerWithoutComplete ==
    << "track.stop", "microphoneSource.disconnect", "audioContext.close" >>

TeardownListenerWithoutClose ==
    << "track.stop", "microphoneSource.disconnect", "recordingDone.complete" >>

TeardownListener ==
    << "track.stop", "microphoneSource.disconnect", "audioContext.close",
       "recordingDone.complete" >>

\* VoiceTranscriptionWorkletNode.start: the listener registered after the
\* raw connection is there
StopListener == << "port.postMessage(stop)", "node.disconnect" >>

CallbackEffects(cb) ==
    CASE cb = "disposeEmitter" -> DisposeListener
      [] cb = "teardown"       -> TeardownListener
      [] cb = "stopWorklet"    -> StopListener

\* The effects of running the callbacks cbs one after the other.
RunCallbacks(cbs) == Flatten([ i \in 1..Len(cbs) |-> CallbackEffects(cbs[i]) ])

\* The state after the effects eff ran in session s; cancelled, cancelledAt,
\* tokenListeners and timers are left to the caller.
ApplyEffects(s, eff) ==
    /\ emitterDisposed' = [emitterDisposed EXCEPT ![s] =
            @ \/ "emitter.dispose" \in Range(eff)]
    /\ liveStreams' = IF "track.stop" \in Range(eff)
                      THEN liveStreams \ microphoneDevice[s]
                      ELSE liveStreams
    /\ openContexts' = IF "audioContext.close" \in Range(eff)
                       THEN openContexts \ audioContext[s]
                       ELSE openContexts
    /\ sourceConnected' = [sourceConnected EXCEPT ![s] =
            @ /\ "microphoneSource.disconnect" \notin Range(eff)]
    /\ recordingDone' = [recordingDone EXCEPT ![s] =
            @ \/ "recordingDone.complete" \in Range(eff)]
    /\ workletCmds' = [workletCmds EXCEPT ![s] =
            IF "port.postMessage(stop)" \in Range(eff)
            THEN Append(@, "stop") ELSE @]
    \* the callback awaits recordingDone.p once it is in Recording
    /\ pc' = [pc EXCEPT ![s] =
            IF @ = "Recording" /\ "recordingDone.complete" \in Range(eff)
            THEN "Stopped" ELSE @]
    /\ log' = [log EXCEPT ![s] = @ \o eff]
    /\ UNCHANGED << fired, delivered, microphoneDevice, audioContext,
                    numStreams, numContexts, nodeEmitter, portQueue, sent >>

\* A task (timer, promise resolution from the platform, port message) only
\* starts when no microtask is pending.
NoMicrotask == \A s \in Sessions : pc[s] # "StartReturned"

\* -------------------------------------------------------------------- Init
Init ==
    /\ pc = [s \in Sessions |-> "Idle"]
    /\ cancelled = [s \in Sessions |-> FALSE]
    /\ cancelledAt = [s \in Sessions |-> "None"]
    /\ tokenListeners = [s \in Sessions |-> << >>]
    /\ timers = [s \in Sessions |-> << >>]
    /\ emitterDisposed = [s \in Sessions |-> FALSE]
    /\ fired = [s \in Sessions |-> << >>]
    /\ delivered = [s \in Sessions |-> << >>]
    /\ microphoneDevice = [s \in Sessions |-> {}]
    /\ audioContext = [s \in Sessions |-> {}]
    /\ liveStreams = {}
    /\ openContexts = {}
    /\ numStreams = 0
    /\ numContexts = 0
    /\ sourceConnected = [s \in Sessions |-> FALSE]
    /\ recordingDone = [s \in Sessions |-> FALSE]
    /\ nodeEmitter = [s \in Sessions |-> "none"]
    /\ workletCmds = [s \in Sessions |-> << >>]
    /\ portQueue = [s \in Sessions |-> << >>]
    /\ sent = [s \in Sessions |-> << >>]
    /\ log = [s \in Sessions |-> << >>]

\* ------------------------------------------------------------ the platform
\* navigator.mediaDevices.getUserMedia resolves with a MediaStream of its
\* own for every call; n streams were handed out before.
NewMediaStream(n) == n + 1

\* new AudioContext(...): an object of its own for every construction.
SharedAudioContext(n) == IF n = 0 THEN n + 1 ELSE n

NewAudioContext(n) == n + 1

\* typeof e.data
TypeOf(e) == e.type

\* ----------------------------------------------------- the service's code
\* doTranscribe: if (token.isCancellationRequested) { return; } after
\* getUserMedia, after addModule and after start.
UncheckedAfterGetUserMedia(s) == FALSE

CancelledAfterGetUserMedia(s) == cancelled[s]

InvertedAfterAddModule(s) == ~cancelled[s]

CancelledAfterAddModule(s) == cancelled[s]

UncheckedAfterStart(s) == FALSE

CancelledAfterStart(s) == cancelled[s]

\* An awaited promise rejects: the await throws, nothing catches it, the
\* async callback rejects.  There is no retry.
RetryState(awaiting) == awaiting

RejectedState(awaiting) == "Failed"

\* start(): the commands posted on the port once the raw connection is there.
StartCommandsNone == << >>

StartCommands == << "start" >>

\* port.onmessage: the arguments of the fire() calls one message causes.
OnMessageWithoutTypeCheck(e) == << e.data >>

OnMessageInvertedTypeCheck(e) ==
    IF TypeOf(e) # "string" THEN << e.data >> ELSE << >>

OnMessage(e) == IF TypeOf(e) = "string" THEN << e.data >> ELSE << >>

\* transcribe(cancellation): the emitter, the dispose listener, and
\* doTranscribe up to its first await (withProgress runs the callback at
\* once; it asks for the microphone unconditionally).
Transcribe(s) ==
    /\ pc[s] = "Idle"
    /\ pc' = [pc EXCEPT ![s] = "AcquiringMicrophone"]
    /\ tokenListeners' = [tokenListeners EXCEPT ![s] =
            RegisterListener(cancelled[s], @, "disposeEmitter")]
    /\ timers' = [timers EXCEPT ![s] =
            RegisterTimer(cancelled[s], @, "disposeEmitter")]
    /\ log' = [log EXCEPT ![s] = @ \o << "new Emitter", "getUserMedia" >>]
    /\ UNCHANGED << cancelled, cancelledAt, emitterDisposed, fired, delivered,
                    microphoneDevice, audioContext, liveStreams, openContexts,
                    numStreams, numContexts, sourceConnected, recordingDone,
                    nodeEmitter, workletCmds, portQueue, sent >>

\* CancellationTokenSource.cancel(): sets the flag and runs the registered
\* callbacks in registration order, once; a second cancel does nothing.
CancelEffects(s) == IF cancelled[s] THEN << >> ELSE RunCallbacks(tokenListeners[s])

Cancel(s) ==
    /\ ~cancelled[s]
    /\ cancelled' = [cancelled EXCEPT ![s] = TRUE]
    /\ cancelledAt' = [cancelledAt EXCEPT ![s] = pc[s]]
    /\ tokenListeners' = [tokenListeners EXCEPT ![s] = << >>]
    /\ ApplyEffects(s, CancelEffects(s))
    /\ UNCHANGED timers

\* cancel() on a source that was cancelled before.
CancelAgain(s) ==
    /\ cancelled[s]
    /\ ApplyEffects(s, CancelEffects(s))
    /\ UNCHANGED << cancelled, cancelledAt, tokenListeners, timers >>

\* A callback scheduled by onCancellationRequested on a cancelled token runs.
TimerFire(s) ==
    /\ NoMicrotask
    /\ timers[s] # << >>
    /\ timers' = [timers EXCEPT ![s] = Tail(@)]
    /\ ApplyEffects(s, CallbackEffects(Head(timers[s])))
    /\ UNCHANGED << cancelled, cancelledAt, tokenListeners >>

\* getUserMedia resolves: the check of the flag, the AudioContext, the
\* source, the teardown listener, and the call of addModule.
GetUserMediaResolve(s) ==
    /\ NoMicrotask
    /\ pc[s] = "AcquiringMicrophone"
    /\ LET stream == NewMediaStream(numStreams)
           ctx == NewAudioContext(numContexts)
       IN /\ numStreams' = numStreams + 1
          /\ microphoneDevice' = [microphoneDevice EXCEPT ![s] = {stream}]
          /\ liveStreams' = liveStreams \cup {stream}
          /\ IF CancelledAfterGetUserMedia(s)
             THEN /\ pc' = [pc EXCEPT ![s] = "Stopped"]
                  /\ UNCHANGED << audioContext, openContexts, numContexts,
                                  tokenListeners, timers, log >>
             ELSE /\ pc' = [pc EXCEPT ![s] = "BuildingGraph"]
                  /\ numContexts' = numContexts + 1
                  /\ audioContext' = [audioContext EXCEPT ![s] = {ctx}]
                  /\ openContexts' = openContexts \cup {ctx}
                  /\ tokenListeners' = [tokenListeners EXCEPT ![s] =
                        RegisterListener(cancelled[s], @, "teardown")]
                  /\ timers' = [timers EXCEPT ![s] =
                        RegisterTimer(cancelled[s], @, "teardown")]
                  /\ log' = [log EXCEPT ![s] = @ \o
                        << "new AudioContext", "createMediaStreamSource",
                           "addModule" >>]
    /\ UNCHANGED << cancelled, cancelledAt, emitterDisposed, fired, delivered,
                    sourceConnected, recordingDone, nodeEmitter, workletCmds,
                    portQueue, sent >>

\* getUserMedia rejects (permission denied, no device): the callback rejects.
GetUserMediaReject(s) ==
    /\ NoMicrotask
    /\ pc[s] = "AcquiringMicrophone"
    /\ pc' = [pc EXCEPT ![s] = RejectedState(@)]
    /\ log' = [log EXCEPT ![s] = Append(@, "getUserMedia rejected")]
    /\ UNCHANGED << cancelled, cancelledAt, tokenListeners, timers,
                    emitterDisposed, fired, delivered, microphoneDevice,
                    audioContext, liveStreams, openContexts, numStreams,
                    numContexts, sourceConnected, recordingDone, nodeEmitter,
                    workletCmds, portQueue, sent >>

\* addModule resolves: the check of the flag, the worklet node (its
\* constructor registers port.onmessage), and start() up to its await.
AddModuleResolve(s) ==
    /\ NoMicrotask
    /\ pc[s] = "BuildingGraph"
    /\ IF CancelledAfterAddModule(s)
       THEN /\ pc' = [pc EXCEPT ![s] = "Stopped"]
            /\ UNCHANGED << nodeEmitter, log >>
       ELSE /\ pc' = [pc EXCEPT ![s] = "ConnectingSideChannel"]
            /\ nodeEmitter' = [nodeEmitter EXCEPT ![s] = s]
            /\ log' = [log EXCEPT ![s] = @ \o
                  << "new VoiceTranscriptionWorkletNode",
                     "createRawConnection" >>]
    /\ UNCHANGED << cancelled, cancelledAt, tokenListeners, timers,
                    emitterDisposed, fired, delivered, microphoneDevice,
                    audioContext, liveStreams, openContexts, numStreams,
                    numContexts, sourceConnected, recordingDone, workletCmds,
                    portQueue, sent >>

\* addModule rejects: the callback rejects; nothing is released.
AddModuleReject(s) ==
    /\ NoMicrotask
    /\ pc[s] = "BuildingGraph"
    /\ pc' = [pc EXCEPT ![s] = RejectedState(@)]
    /\ log' = [log EXCEPT ![s] = Append(@, "addModule rejected")]
    /\ UNCHANGED << cancelled, cancelledAt, tokenListeners, timers,
                    emitterDisposed, fired, delivered, microphoneDevice,
                    audioContext, liveStreams, openContexts, numStreams,
                    numContexts, sourceConnected, recordingDone, nodeEmitter,
                    workletCmds, portQueue, sent >>

\* createRawConnection resolves: the rest of start(), which registers the
\* stop listener and posts the start command with the connection.
CreateRawConnectionResolve(s) ==
    /\ NoMicrotask
    /\ pc[s] = "ConnectingSideChannel"
    /\ pc' = [pc EXCEPT ![s] = "StartReturned"]
    /\ tokenListeners' = [tokenListeners EXCEPT ![s] =
            RegisterListener(cancelled[s], @, "stopWorklet")]
    /\ timers' = [timers EXCEPT ![s] =
            RegisterTimer(cancelled[s], @, "stopWorklet")]
    /\ workletCmds' = [workletCmds EXCEPT ![s] = @ \o StartCommands]
    /\ log' = [log EXCEPT ![s] = @ \o
            [i \in 1..Len(StartCommands) |-> "port.postMessage(start)"]]
    /\ UNCHANGED << cancelled, cancelledAt, emitterDisposed, fired, delivered,
                    microphoneDevice, audioContext, liveStreams, openContexts,
                    numStreams, numContexts, sourceConnected, recordingDone,
                    nodeEmitter, portQueue, sent >>

\* createRawConnection rejects: start() rejects and so does the callback.
CreateRawConnectionReject(s) ==
    /\ NoMicrotask
    /\ pc[s] = "ConnectingSideChannel"
    /\ pc' = [pc EXCEPT ![s] = RejectedState(@)]
    /\ log' = [log EXCEPT ![s] = Append(@, "createRawConnection rejected")]
    /\ UNCHANGED << cancelled, cancelledAt, tokenListeners, timers,
                    emitterDisposed, fired, delivered, microphoneDevice,
                    audioContext, liveStreams, openContexts, numStreams,
                    numContexts, sourceConnected, recordingDone, nodeEmitter,
                    workletCmds, portQueue, sent >>

\* The continuation of doTranscribe after await start(token): the check of
\* the flag, the connection of the source to the node, return recordingDone.p.
AfterStart(s) ==
    /\ pc[s] = "StartReturned"
    /\ IF CancelledAfterStart(s)
       THEN /\ pc' = [pc EXCEPT ![s] = "Stopped"]
            /\ UNCHANGED << sourceConnected, log >>
       ELSE /\ pc' = [pc EXCEPT ![s] =
                  IF recordingDone[s] THEN "Stopped" ELSE "Recording"]
            /\ sourceConnected' = [sourceConnected EXCEPT ![s] = TRUE]
            /\ log' = [log EXCEPT ![s] = Append(@, "microphoneSource.connect")]
    /\ UNCHANGED << cancelled, cancelledAt, tokenListeners, timers,
                    emitterDisposed, fired, delivered, microphoneDevice,
                    audioContext, liveStreams, openContexts, numStreams,
                    numContexts, recordingDone, nodeEmitter, workletCmds,
                    portQueue, sent >>

\* The processing unit posts a message on the port of the session's node.
WorkletPost(s, e) ==
    /\ nodeEmitter[s] # "none"
    /\ SumLen(sent, Sessions) < MaxMsgs
    /\ sent' = [sent EXCEPT ![s] = Append(@, e)]
    /\ portQueue' = [portQueue EXCEPT ![s] = Append(@, e)]
    /\ UNCHANGED << pc, cancelled, cancelledAt, tokenListeners, timers,
                    emitterDisposed, fired, delivered, microphoneDevice,
                    audioContext, liveStreams, openContexts, numStreams,
                    numContexts, sourceConnected, recordingDone, nodeEmitter,
                    workletCmds, log >>

\* The message event of the port: port.onmessage runs on the oldest message.
PortMessage(s) ==
    /\ NoMicrotask
    /\ portQueue[s] # << >>
    /\ LET e == Head(portQueue[s])
           target == nodeEmitter[s]
           calls == OnMessage(e)
       IN /\ portQueue' = [portQueue EXCEPT ![s] = Tail(@)]
          /\ fired' = [fired EXCEPT ![target] = @ \o calls]
          /\ delivered' = [delivered EXCEPT ![target] =
                FireAll(emitterDisposed[target], @, calls)]
    /\ UNCHANGED << pc, cancelled, cancelledAt, tokenListeners, timers,
                    emitterDisposed, microphoneDevice, audioContext,
                    liveStreams, openContexts, numStreams, numContexts,
                    sourceConnected, recordingDone, nodeEmitter, workletCmds,
                    sent, log >>

Next ==
    \E s \in Sessions :
        \/ Transcribe(s)
        \/ Cancel(s)
        \/ CancelAgain(s)
        \/ TimerFire(s)
        \/ GetUserMediaResolve(s)
        \/ GetUserMediaReject(s)
        \/ AddModuleResolve(s)
        \/ AddModuleReject(s)
        \/ CreateRawConnectionResolve(s)
        \/ CreateRawConnectionReject(s)
        \/ AfterStart(s)
        \/ PortMessage(s)
        \/ \E e \in Payloads : WorkletPost(s, e)

Spec == Init /\ [][Next]_vars

TypeOK ==
    /\ pc \in [Sessions -> {"Idle", "AcquiringMicrophone", "BuildingGraph",
                            "ConnectingSideChannel", "StartReturned",
                            "Recording", "Stopped", "Failed"}]
    /\ cancelled \in [Sessions -> BOOLEAN]
    /\ \A s \in Sessions : Len(sent[s]) <= MaxMsgs

\* ------------------------------------------------------- derived notions
\* The fragments among the messages q.
RECURSIVE Strings(_)
Strings(q) ==
    IF q = << >> THEN << >>
    ELSE (IF Head(q).type = "string" THEN << Head(q).data >> ELSE << >>)
         \o Strings(Tail(q))

\* The messages of the session's worklet that port.onmessage has handled.
Handled(s) == SubSeq(sent[s], 1, Len(sent[s]) - Len(portQueue[s]))

IsPrefix(p, q) == Len(p) <= Len(q) /\ SubSeq(q, 1, Len(p)) = p

Did(s, effect) == effect \in Range(log[s])

TracksLive(s) == microphoneDevice[s] \cap liveStreams # {}

ContextOpen(s) == audioContext[s] \cap openContexts # {}

\* Each of the three teardown actions ran exactly once in session s.
TornDownOnce(s) ==
    /\ Count(log[s], "track.stop") = 1
    /\ Count(log[s], "microphoneSource.disconnect") = 1
    /\ Count(log[s], "audioContext.close") = 1

\* ------------------------------------------------------------------ claims

\* C1: for every point at which cancellation can be requested (before the
\* microphone acquisition resolves, during module load, during side-channel
\* open, during Recording), each of the teardown actions "stop every track",
\* "disconnect the source" and "close the context" has run exactly once by
\* the end of the session.  The code returns after getUserMedia without
\* having registered the teardown, so this is violated.
C1_TeardownExactlyOnce ==
    \A s \in Sessions :
        (cancelled[s] /\ pc[s] = "Stopped" /\ timers[s] = << >>)
            => TornDownOnce(s)

\* C2: once cancellation has been requested on the token, no further
\* fragment is delivered to the subscribers of the returned event, whatever
\* the processing unit sends afterwards.
C2_NoFragmentAfterCancel ==
    [][\A s \in Sessions : cancelled[s] => delivered'[s] = delivered[s]]_vars

\* A string message was handled after cancellation and was not delivered.
C2_Witness ==
    \E s \in Sessions :
        /\ cancelled[s]
        /\ portQueue[s] = << >>
        /\ Len(Strings(sent[s])) > Len(delivered[s])

\* C3: if cancellation is requested while getUserMedia is pending, then
\* after it resolves no audio context is created, no module is loaded, no
\* worklet node is constructed and no side-channel connection is opened.
C3_NoGraphWhenCancelledWhileAcquiring ==
    \A s \in Sessions :
        cancelledAt[s] \in {"Idle", "AcquiringMicrophone"} =>
            /\ audioContext[s] = {}
            /\ nodeEmitter[s] = "none"
            /\ ~Did(s, "new AudioContext")
            /\ ~Did(s, "addModule")
            /\ ~Did(s, "new VoiceTranscriptionWorkletNode")
            /\ ~Did(s, "createRawConnection")

\* getUserMedia resolved after the cancellation and the callback returned.
C3_Witness ==
    \E s \in Sessions :
        /\ cancelledAt[s] = "AcquiringMicrophone"
        /\ microphoneDevice[s] # {}
        /\ pc[s] = "Stopped"

\* C4: when the token is cancelled before any asynchronous setup step
\* resolves, the session reaches Stopped without ever acquiring a
\* microphone: no stream is requested or held.  The code asks for the
\* microphone before it looks at the token and keeps the stream it gets, so
\* this is violated.
C4_NoMicrophoneWhenCancelledImmediately ==
    \A s \in Sessions :
        (cancelledAt[s] \in {"Idle", "AcquiringMicrophone"} /\ pc[s] = "Stopped")
            => /\ ~Did(s, "getUserMedia")
               /\ microphoneDevice[s] = {}
               /\ ~TracksLive(s)

\* C5: if cancellation is requested after Recording has begun, the tracks
\* are stopped and the context is closed by that one cancellation: from the
\* state right after it on, the tracks are not live and the context is not
\* open.
C5_RecordingTeardownInOnePass ==
    \A s \in Sessions :
        cancelledAt[s] = "Recording" =>
            /\ ~TracksLive(s)
            /\ ~ContextOpen(s)
            /\ Did(s, "track.stop")
            /\ Did(s, "audioContext.close")

C5_Witness ==
    \E s \in Sessions :
        /\ cancelledAt[s] = "Recording"
        /\ microphoneDevice[s] # {}
        /\ audioContext[s] # {}
        /\ pc[s] = "Stopped"

\* C6: for every message received on the port, a string payload causes
\* exactly one fire() with that string on the session's emitter, any other
\* payload causes none; nothing else fires the emitter.
C6_OneFirePerStringMessage ==
    [][\A s \in Sessions :
          IF portQueue[s] # << >> /\ portQueue'[s] = Tail(portQueue[s])
          THEN LET e == Head(portQueue[s])
               IN IF e.type = "string"
                  THEN fired'[s] = Append(fired[s], e.data)
                  ELSE fired'[s] = fired[s]
          ELSE fired'[s] = fired[s]]_vars

\* A string and a non-string message were both handled.
C6_Witness ==
    \E s \in Sessions :
        /\ Len(fired[s]) = 1
        /\ Len(Handled(s)) = 2

\* C7: while the token is not cancelled, the fragments a subscriber has
\* observed are the string messages the processing unit emitted and the
\* port has delivered, in the same order, none lost, duplicated or
\* reordered.
C7_FragmentsInOrder ==
    \A s \in Sessions :
        ~cancelled[s] =>
            /\ delivered[s] = Strings(Handled(s))
            /\ delivered[s] \o Strings(portQueue[s]) = Strings(sent[s])

\* "hello" then "world".
C7_Witness ==
    \E s \in Sessions :
        /\ ~cancelled[s]
        /\ delivered[s] = << "hello", "world" >>

\* C8: two transcribe calls with independent tokens share no resource:
\* their streams and contexts are distinct objects, a node fires the emitter
\* of its own session only, and cancelling one token leaves the other
\* session's emitter, tracks, context, node and lifecycle state unchanged.
SessionView(t) ==
    << pc[t], cancelled[t], tokenListeners[t], timers[t], emitterDisposed[t],
       fired[t], delivered[t], microphoneDevice[t], audioContext[t],
       TracksLive(t), ContextOpen(t), sourceConnected[t], recordingDone[t],
       nodeEmitter[t], workletCmds[t], portQueue[t], log[t] >>

C8_SessionsIndependent ==
    /\ [](\A s, t \in Sessions :
            s # t => /\ microphoneDevice[s] \cap microphoneDevice[t] = {}
                     /\ audioContext[s] \cap audioContext[t] = {}
                     /\ nodeEmitter[s] \in {"none", s}
                     /\ IsPrefix(delivered[s], Strings(sent[s])))
    /\ [][\A s, t \in Sessions :
            (s # t /\ ~cancelled[s] /\ cancelled'[s])
                => SessionView(t)' = SessionView(t)]_vars

\* One session was cancelled while recording, the other one records on and
\* has delivered a fragment.
C8_Witness ==
    \E s, t \in Sessions :
        /\ s # t
        /\ cancelledAt[s] = "Recording"
        /\ pc[t] = "Recording"
        /\ TracksLive(t)
        /\ ContextOpen(t)
        /\ delivered[t] # << >>

\* C9 as stated: after each asynchronous setup step the flag is checked and
\* the next step is not performed when it is set; in particular the start
\* command is not posted when cancellation is requested while the
\* side-channel connection is being opened.
C9_NoStartWhenCancelledWhileConnecting ==
    \A s \in Sessions :
        /\ cancelledAt[s] \in {"Idle", "AcquiringMicrophone"}
              => ~Did(s, "new AudioContext")
        /\ cancelledAt[s] = "BuildingGraph"
              => ~Did(s, "new VoiceTranscriptionWorkletNode")
        /\ cancelledAt[s] = "ConnectingSideChannel"
              => /\ ~Did(s, "port.postMessage(start)")
                 /\ ~Did(s, "microphoneSource.connect")

\* C9 amended: after each await of doTranscribe (getUserMedia, addModule,
\* start) the flag is checked and, when it is set, the callback returns
\* without performing its next step (creating the context, constructing the
\* node, connecting the source).  start() itself does not check the flag
\* after the side-channel connection is there: the start command is posted
\* all the same, and the stop command follows it.
C9_ChecksAfterEachAwait ==
    \A s \in Sessions :
        /\ cancelledAt[s] \in {"Idle", "AcquiringMicrophone"}
              => /\ ~Did(s, "new AudioContext")
                 /\ pc[s] \in {"Idle", "AcquiringMicrophone", "Stopped", "Failed"}
        /\ cancelledAt[s] = "BuildingGraph"
              => /\ ~Did(s, "new VoiceTranscriptionWorkletNode")
                 /\ pc[s] \in {"BuildingGraph", "Stopped", "Failed"}
        /\ cancelledAt[s] \in {"ConnectingSideChannel", "StartReturned"}
              => /\ ~Did(s, "microphoneSource.connect")
                 /\ ~sourceConnected[s]
                 /\ pc[s] \in {"ConnectingSideChannel", "StartReturned",
                               "Stopped", "Failed"}
        /\ (cancelledAt[s] = "ConnectingSideChannel" /\ pc[s] = "Stopped")
              => /\ Did(s, "port.postMessage(start)")
                 /\ timers[s] = << >> => workletCmds[s] = << "start", "stop" >>

\* Cancelled while the connection was being opened: start and then stop
\* were posted, the source was never connected.
C9_Witness ==
    \E s \in Sessions :
        /\ cancelledAt[s] = "ConnectingSideChannel"
        /\ pc[s] = "Stopped"
        /\ workletCmds[s] = << "start", "stop" >>
        /\ ~sourceConnected[s]

\* C10: whenever the session enters Stopped, whichever state was active
\* before, the stop command was signalled to the processing unit together
\* with the other teardown actions (callbacks deferred by the cancelled
\* token having run).  The early returns after getUserMedia and addModule
\* reach Stopped with no stop command, the first of them with no teardown at
\* all, so this is violated.
C10_StopSignalledOnEveryStop ==
    \A s \in Sessions :
        (pc[s] = "Stopped" /\ timers[s] = << >>)
            => /\ "stop" \in Range(workletCmds[s])
               /\ Did(s, "track.stop")
               /\ Did(s, "microphoneSource.disconnect")
               /\ Did(s, "audioContext.close")

\* C11 as stated: the session reaches Stopped not only on cancellation but
\* also when the processing unit signals its own completion: once the port
\* has handled a message of the unit that is not a fragment, a recording
\* session whose token is not cancelled is Stopped.
C11_StoppedOnUnitCompletion ==
    \A s \in Sessions :
        ( /\ ~cancelled[s]
          /\ Did(s, "microphoneSource.connect")
          /\ \E i \in 1..Len(Handled(s)) : Handled(s)[i].type # "string" )
            => pc[s] = "Stopped"

\* C11 amended: the session reaches Stopped on cancellation only.
\* recordingDone is completed by the cancellation listener and by nothing
\* else; no message of the processing unit, string or not, completes it or
\* moves the session out of Recording.
C11_StoppedOnlyByCancellation ==
    /\ [](\A s \in Sessions :
            /\ pc[s] = "Stopped" => cancelled[s]
            /\ recordingDone[s] => cancelled[s])
    /\ [][\A s \in Sessions :
            (portQueue[s] # << >> /\ portQueue'[s] = Tail(portQueue[s]))
                => /\ pc'[s] = pc[s]
                   /\ recordingDone'[s] = recordingDone[s]
                   /\ TracksLive(s)' = TracksLive(s)
                   /\ ContextOpen(s)' = ContextOpen(s)]_vars

\* A recording session, not cancelled, has handled a message that is not a
\* fragment and records on.
C11_Witness ==
    \E s \in Sessions :
        /\ ~cancelled[s]
        /\ pc[s] = "Recording"
        /\ portQueue[s] = << >>
        /\ \E i \in 1..Len(sent[s]) : sent[s][i].type # "string"

\* The effects of q that are among S, in the order of q.
RECURSIVE Project(_, _)
Project(q, S) ==
    IF q = << >> THEN << >>
    ELSE (IF Head(q) \in S THEN << Head(q) >> ELSE << >>)
         \o Project(Tail(q), S)

\* The position of the first x in q (0 when there is none).
IndexOf(q, x) ==
    LET at == { i \in 1..Len(q) : q[i] = x }
    IN IF at = {} THEN 0 ELSE CHOOSE i \in at : \A j \in at : i <= j

\* C12: on cancellation the teardown actions run in the fixed order stop
\* the tracks, disconnect the source, close the context, signal the
\* completion of the recording; no execution runs them in another order.
C12_TeardownOrder ==
    \A s \in Sessions :
        Project(log[s], {"track.stop", "microphoneSource.disconnect",
                         "audioContext.close", "recordingDone.complete"})
            \in { << >>,
                  << "track.stop", "microphoneSource.disconnect",
                     "audioContext.close", "recordingDone.complete" >> }

\* The teardown ran in two sessions, cancelled at different moments.
C12_Witness ==
    \E s, t \in Sessions :
        /\ cancelledAt[s] = "BuildingGraph"
        /\ cancelledAt[t] = "Recording"
        /\ Did(s, "recordingDone.complete")
        /\ Did(t, "recordingDone.complete")

\* C13: in every execution that reaches Recording the side-channel
\* connection was opened and handed to the processing unit (start command
\* posted) strictly before the source was connected to the node.
C13_StartBeforeAudio ==
    \A s \in Sessions :
        /\ pc[s] = "Recording" => sourceConnected[s]
        /\ (sourceConnected[s] \/ Did(s, "microphoneSource.connect"))
              => /\ Did(s, "createRawConnection")
                 /\ Did(s, "port.postMessage(start)")
                 /\ IndexOf(log[s], "createRawConnection")
                        < IndexOf(log[s], "port.postMessage(start)")
                 /\ IndexOf(log[s], "port.postMessage(start)")
                        < IndexOf(log[s], "microphoneSource.connect")
                 /\ Head(workletCmds[s]) = "start"

C13_Witness ==
    \E s \in Sessions :
        /\ pc[s] = "Recording"
        /\ sourceConnected[s]
        /\ workletCmds[s] = << "start" >>

\* C14: a session has at most one microphone acquisition and at most one
\* audio graph, and the two are released together: in no reachable state is
\* one of them released while the other, having been acquired, is held.
C14_OneMicrophoneOneGraph ==
    \A s \in Sessions :
        /\ Count(log[s], "getUserMedia") <= 1
        /\ Count(log[s], "new AudioContext") <= 1
        /\ Count(log[s], "new VoiceTranscriptionWorkletNode") <= 1
        /\ Cardinality(microphoneDevice[s]) <= 1
        /\ Cardinality(audioContext[s]) <= 1
        /\ (microphoneDevice[s] # {} /\ audioContext[s] # {})
              => (TracksLive(s) <=> ContextOpen(s))

\* One session holds both, another one has released both.
C14_Witness ==
    \E s, t \in Sessions :
        /\ TracksLive(s) /\ ContextOpen(s)
        /\ microphoneDevice[t] # {} /\ audioContext[t] # {}
        /\ ~TracksLive(t) /\ ~ContextOpen(t)

\* C15: if the microphone acquisition or the module load rejects, the
\* failure is terminal for the session: the setup routine ends in failure
\* and stays there, no later setup step is performed (node construction,
\* side-channel open, start command, connection of the source), nothing is
\* asked for a second time, and the returned stream never emits a fragment.
C15_SetupFailureTerminal ==
    /\ [](\A s \in Sessions :
            (Did(s, "getUserMedia rejected") \/ Did(s, "addModule rejected"))
                => /\ pc[s] = "Failed"
                   /\ nodeEmitter[s] = "none"
                   /\ ~Did(s, "new VoiceTranscriptionWorkletNode")
                   /\ ~Did(s, "createRawConnection")
                   /\ workletCmds[s] = << >>
                   /\ ~sourceConnected[s]
                   /\ Count(log[s], "getUserMedia") = 1
                   /\ Count(log[s], "addModule") <= 1
                   /\ Did(s, "getUserMedia rejected") => microphoneDevice[s] = {}
                   /\ fired[s] = << >>
                   /\ delivered[s] = << >>)
    /\ [][\A s \in Sessions : pc[s] = "Failed" => pc'[s] = "Failed"]_vars

\* The acquisition was rejected in one session and the module load in
\* another one.
C15_Witness ==
    \E s, t \in Sessions :
        /\ Did(s, "getUserMedia rejected")
        /\ Did(t, "addModule rejected")
        /\ pc[s] = "Failed"
        /\ pc[t] = "Failed"

\* C16: the source is never connected to the processing node once
\* cancellation has been requested: in every reachable state "cancellation
\* requested" implies "source not connected", also when the cancellation
\* arrives while the side-channel connection is being opened.
C16_NotConnectedOnceCancelled ==
    \A s \in Sessions : cancelled[s] => ~sourceConnected[s]

\* One session was cancelled while connected, another one while its
\* side-channel connection was being opened and start() has returned since.
C16_Witness ==
    \E s, t \in Sessions :
        /\ cancelledAt[s] = "Recording"
        /\ Did(s, "microphoneSource.connect")
        /\ cancelledAt[t] = "ConnectingSideChannel"
        /\ pc[t] = "Stopped"
        /\ Did(t, "port.postMessage(start)")

\* C18: the stop command is never posted to the processing unit before the
\* start command, in any interleaving of the cancellation with the
\* side-channel open, and it is posted at most once per session.
C18_StopAfterStartAtMostOnce ==
    \A s \in Sessions :
        workletCmds[s] \in { << >>, << "start" >>, << "start", "stop" >> }

\* The stop command was posted by the deferred callback in one session
\* (cancelled while the connection was being opened) and by the listener
\* in another one (cancelled after start() had registered it).
C18_Witness ==
    \E s, t \in Sessions :
        /\ cancelledAt[s] = "ConnectingSideChannel"
        /\ cancelledAt[t] \in {"StartReturned", "Recording"}
        /\ workletCmds[s] = << "start", "stop" >>
        /\ workletCmds[t] = << "start", "stop" >>

\* C19: when the module load or the side-channel open rejects after the
\* microphone was acquired and the context created, the failure itself
\* releases nothing: tracks stay live and the context stays open after the
\* setup routine has failed, and they are released only if and when
\* cancellation is requested on the token.
FailedAfterAcquisition(s) ==
    Did(s, "addModule rejected") \/ Did(s, "createRawConnection rejected")

C19_FailureReleasesNothing ==
    /\ [](\A s \in Sessions :
            FailedAfterAcquisition(s)
                => /\ pc[s] = "Failed"
                   /\ TracksLive(s) <=> ~cancelled[s]
                   /\ ContextOpen(s) <=> ~cancelled[s])
    /\ [][\A s \in Sessions :
            (pc[s] # "Failed" /\ pc'[s] = "Failed")
                => /\ TracksLive(s)' = TracksLive(s)
                   /\ ContextOpen(s)' = ContextOpen(s)]_vars

\* The module load failed in a session that still holds its microphone and
\* its context; the side-channel open failed in a session that was
\* cancelled afterwards and has released them.
C19_Witness ==
    \E s, t \in Sessions :
        /\ Did(s, "addModule rejected")
        /\ ~cancelled[s]
        /\ TracksLive(s) /\ ContextOpen(s)
        /\ Did(t, "createRawConnection rejected")
        /\ cancelledAt[t] = "Failed"
        /\ ~TracksLive(t) /\ ~ContextOpen(t)

\* ---------------------------------------------------------------- liveness
\* Every pending asynchronous step eventually resolves or rejects, and the
\* event loop eventually runs a pending microtask, timer and port message.
Fairness ==
    \A s \in Sessions :
        /\ WF_vars(GetUserMediaResolve(s) \/ GetUserMediaReject(s))
        /\ WF_vars(AddModuleResolve(s) \/ AddModuleReject(s))
        /\ WF_vars(CreateRawConnectionResolve(s) \/ CreateRawConnectionReject(s))
        /\ WF_vars(AfterStart(s))
        /\ WF_vars(TimerFire(s))
        /\ WF_vars(PortMessage(s))

\* The messages of the processing unit have no part in the settlement of
\* the routine: the behaviours checked for liveness carry fewer of them.
LiveNext ==
    \E s \in Sessions :
        \/ Transcribe(s)
        \/ Cancel(s)
        \/ CancelAgain(s)
        \/ TimerFire(s)
        \/ GetUserMediaResolve(s)
        \/ GetUserMediaReject(s)
        \/ AddModuleResolve(s)
        \/ AddModuleReject(s)
        \/ CreateRawConnectionResolve(s)
        \/ CreateRawConnectionReject(s)
        \/ AfterStart(s)
        \/ PortMessage(s)
        \/ \E e \in Payloads :
              SumLen(sent, Sessions) < MaxLiveMsgs /\ WorkletPost(s, e)

LiveSpec == Init /\ [][LiveNext]_vars /\ Fairness

\* The async callback handed to withProgress has settled.
Settled(s) == pc[s] \in {"Stopped", "Failed"}

\* C17: provided every pending asynchronous step eventually resolves or
\* rejects, once cancellation is requested the setup routine eventually
\* settles, from whichever state the session was in; and a session in
\* Recording leaves Recording by no step other than the cancellation.
C17_SettlesOnceCancelled ==
    /\ \A s \in Sessions :
          (cancelled[s] /\ pc[s] # "Idle") ~> Settled(s)
    /\ [][\A s \in Sessions :
            (pc[s] = "Recording" /\ ~cancelled'[s])
                => pc'[s] = "Recording"]_vars

\* One session settled after a cancellation during the module load while
\* another one, never cancelled, is recording.
C17_Witness ==
    \E s, t \in Sessions :
        /\ cancelledAt[s] = "BuildingGraph"
        /\ Settled(s)
        /\ pc[t] = "Recording"
        /\ ~cancelled[t]

====
